---- MODULE Spec2Model ----
(***************************************************************************)
(* Model of the EventTarget class of script.js: a Map from event name to   *)
(* a Set of callbacks, with addEventListener, removeEventListener and      *)
(* dispatchEvent.  Listener bodies are arbitrary code: while a callback    *)
(* runs it may call the three methods of the same target, return, throw,   *)
(* or catch the exception of a dispatch it called.                         *)
(*                                                                         *)
(* A JavaScript Set iterates in insertion order, so a Set of callbacks is  *)
(* a sequence without repetition; the Map is a function whose domain is    *)
(* the set of keys present.                                                *)
(***************************************************************************)
EXTENDS Naturals, Sequences, FiniteSets, TLC

\* Bounds of the exploration.
MaxCalls == 5
MaxDepth == 2

\* Event names and callback identities used by the callers.
Names == {"hello", "world"}
Handles == {"logHello", "logWorld", "anon"}

VARIABLES
    listeners,  \* #listeners: event name -> Set of callbacks (insertion order)
    stack,      \* active dispatchEvent calls, innermost last
    error,      \* an exception is propagating into the listener on top of the stack
    reg,        \* history: per name and handle, the addEventListener calls since the last removeEventListener (2 stands for 2 or more)
    emptied,    \* history: the names whose last listener was removed at some time
    order,      \* history: per name, the registered handles by the time of their first addEventListener call since their last removal
    owed,       \* history: per name, the handles added during a dispatch of that name and not yet snapshotted
    done,       \* history: the dispatchEvent call that ended last
    last,       \* history: the step taken last
    prev,       \* history: #listeners before the step taken last
    calls,      \* number of method calls made so far
    script      \* the calls of the sample usage still to be replayed in order (<<>>: callers are free)

vars == <<listeners, stack, error, reg, emptied, order, owed, done, last, prev, calls, script>>

Range(s) == {s[i] : i \in 1..Len(s)}

NoDup(s) == \A i, j \in 1..Len(s) : i # j => s[i] # s[j]

----------------------------------------------------------------------------
\* Set.prototype.add with every call appending, as an array push would.
SetAddPush(s, cb) == Append(s, cb)

\* An add that deletes the value before appending it: a repeated add moves
\* the value to the end.
SetAddMove(s, cb) == Append(SelectSeq(s, LAMBDA x : x # cb), cb)

\* Set.prototype.add: a value already in the Set keeps its place.
SetAdd(s, cb) == IF cb \in Range(s) THEN s ELSE Append(s, cb)

\* Removal by index without the "not found" test: splice(indexOf(cb), 1)
\* removes the last element when cb is absent.
SetDeleteSplice(s, cb) ==
    IF cb \in Range(s) THEN SelectSeq(s, LAMBDA x : x # cb)
    ELSE SubSeq(s, 1, Len(s) - 1)

\* Set.prototype.delete: removes cb if present, keeps the order of the rest.
SetDelete(s, cb) == SelectSeq(s, LAMBDA x : x # cb)

\* Map.prototype.get(eventName) is truthy: the key is present.
HasEntry(ls, eventName) == eventName \in DOMAIN ls

\* addEventListener without the test of the looked-up Set: a new Set is
\* stored under the name at every call.
AddListenersReset(ls, eventName, callback) ==
    [n \in DOMAIN ls \cup {eventName} |->
        IF n = eventName THEN <<callback>> ELSE ls[n]]

\* #listeners after addEventListener(eventName, callback).
AddListeners(ls, eventName, callback) ==
    LET callbacks == IF HasEntry(ls, eventName) THEN ls[eventName] ELSE <<>>
    IN  [n \in DOMAIN ls \cup {eventName} |->
            IF n = eventName THEN SetAdd(callbacks, callback) ELSE ls[n]]

\* removeEventListener without the clean-up of an emptied Set.
RemoveListenersNoCleanup(ls, eventName, callback) ==
    IF HasEntry(ls, eventName)
    THEN [ls EXCEPT ![eventName] = SetDelete(ls[eventName], callback)]
    ELSE ls

\* #listeners after removeEventListener(eventName, callback).
RemoveListeners(ls, eventName, callback) ==
    IF HasEntry(ls, eventName)
    THEN LET callbacks == SetDelete(ls[eventName], callback)
         IN  IF Len(callbacks) = 0
             THEN [n \in DOMAIN ls \ {eventName} |-> ls[n]]
             ELSE [ls EXCEPT ![eventName] = callbacks]
    ELSE ls

\* dispatchEvent without its test of the looked-up Set.
DispatchGuardMissing(ls, eventName) == TRUE

\* The test `if (callbacks)` of dispatchEvent.
DispatchGuard(ls, eventName) == HasEntry(ls, eventName)

\* A lookup that ignores the event name and takes every registered callback.
SnapshotAnyName(ls, eventName) ==
    LET RECURSIVE Cat(_)
        Cat(S) == IF S = {} THEN <<>>
                  ELSE LET n == CHOOSE x \in S : TRUE
                       IN  ls[n] \o Cat(S \ {n})
    IN  Cat(DOMAIN ls)

\* [...callbacks]: the array copy of the Set found under eventName.
Snapshot(ls, eventName) == ls[eventName]

\* Iteration over the live Set instead of the copy: the callbacks now in the
\* Set that this dispatch has not invoked yet.
PendingLive(fr, ls) ==
    IF HasEntry(ls, fr.name)
    THEN SelectSeq(ls[fr.name], LAMBDA x : x \notin Range(fr.invoked))
    ELSE <<>>

\* forEach over the array copy: the elements after the one invoked last.
Pending(fr, ls) == SubSeq(fr.snap, fr.pos + 1, Len(fr.snap))

----------------------------------------------------------------------------
\* The handles that the calls made so far leave registered under eventName.
Registered(r, eventName) == {h \in Handles : r[eventName][h] > 0}

NoReg == [n \in Names |-> [h \in Handles |-> 0]]

\* The callbacks stored under eventName, none if the key is absent.
Stored(ls, eventName) == IF HasEntry(ls, eventName) THEN Range(ls[eventName]) ELSE {}

\* A step: the method called or the event of a callback, the handle whose
\* invocation the step began ("" if none), whether the step repeats the
\* call of the step before it, and whether it is the removal of the handle
\* that the step before it registered anew.
Step(op, eventName, callback, inv) ==
    [op |-> op, name |-> eventName, cb |-> callback, invoked |-> inv,
     rep |-> (op \in {"add", "remove"} /\ last.op = op /\ last.name = eventName
                  /\ last.cb = callback),
     undo |-> (op = "remove" /\ last.op = "add" /\ last.name = eventName
                  /\ last.cb = callback /\ callback \notin Stored(prev, eventName))]

NoCall ==
    [op |-> "init", name |-> "", cb |-> "", invoked |-> "", rep |-> FALSE,
     undo |-> FALSE]

NoDispatch ==
    [name |-> "", regAt |-> NoReg, emptiedAt |-> {}, invoked |-> <<>>,
     added |-> {}, removed |-> {}, owes |-> {}, outcome |-> "none",
     snap |-> <<>>, lsAt |-> << >>, orderAt |-> <<>>, touched |-> FALSE,
     depth |-> 0, nested |-> FALSE]

\* The record of a finished dispatch, from its frame.
Finished(fr, how) ==
    [name |-> fr.name, regAt |-> fr.regAt, emptiedAt |-> fr.emptiedAt,
     invoked |-> fr.invoked, added |-> fr.added, removed |-> fr.removed, owes |-> fr.owes,
     outcome |-> how, snap |-> fr.snap, lsAt |-> fr.lsAt, orderAt |-> fr.orderAt,
     touched |-> fr.touched, depth |-> fr.depth, nested |-> fr.nested]

\* The handles registered under the name of a dispatch when it began.
AtStart(fr) == Registered(fr.regAt, fr.name)

Init ==
    /\ listeners = << >>
    /\ stack = << >>
    /\ error = FALSE
    /\ reg = NoReg
    /\ emptied = {}
    /\ order = [n \in Names |-> <<>>]
    /\ owed = [n \in Names |-> {}]
    /\ done = NoDispatch
    /\ last = NoCall
    /\ prev = << >>
    /\ calls = 0
    /\ script = << >>

\* A caller (the program, or the listener running on top of the stack) may
\* make a method call; the exploration stops after MaxCalls calls, the
\* sample usage after its own calls.
CanCall == error = FALSE /\ (calls < MaxCalls \/ calls < Len(script))

AddEventListener(eventName, callback) ==
    /\ CanCall
    /\ listeners' = AddListeners(listeners, eventName, callback)
    /\ stack' = [i \in 1..Len(stack) |->
                    IF stack[i].name = eventName /\ callback \notin AtStart(stack[i])
                    THEN [stack[i] EXCEPT !.added = @ \cup {callback}, !.touched = TRUE]
                    ELSE [stack[i] EXCEPT !.touched = TRUE]]
    /\ order' = IF callback \in Range(order[eventName])
                THEN order
                ELSE [order EXCEPT ![eventName] = Append(@, callback)]
    /\ owed' = IF \E i \in 1..Len(stack) :
                      stack[i].name = eventName /\ callback \notin AtStart(stack[i])
               THEN [owed EXCEPT ![eventName] = @ \cup {callback}]
               ELSE owed
    /\ reg' = [reg EXCEPT ![eventName][callback] = IF @ < 2 THEN @ + 1 ELSE 2]
    /\ last' = Step("add", eventName, callback, "")
    /\ prev' = listeners
    /\ calls' = calls + 1
    /\ UNCHANGED <<error, done, emptied, script>>

RemoveEventListener(eventName, callback) ==
    /\ CanCall
    /\ listeners' = RemoveListeners(listeners, eventName, callback)
    /\ stack' = [i \in 1..Len(stack) |->
                    IF /\ stack[i].name = eventName
                       /\ callback \in AtStart(stack[i])
                       /\ callback \notin Range(stack[i].invoked)
                    THEN [stack[i] EXCEPT !.removed = @ \cup {callback}, !.touched = TRUE]
                    ELSE [stack[i] EXCEPT !.touched = TRUE]]
    /\ order' = [order EXCEPT ![eventName] = SelectSeq(@, LAMBDA x : x # callback)]
    /\ owed' = [owed EXCEPT ![eventName] = @ \ {callback}]
    /\ reg' = [reg EXCEPT ![eventName][callback] = 0]
    /\ emptied' = IF Registered(reg, eventName) = {callback}
                  THEN emptied \cup {eventName}
                  ELSE emptied
    /\ last' = Step("remove", eventName, callback, "")
    /\ prev' = listeners
    /\ calls' = calls + 1
    /\ UNCHANGED <<error, done, script>>

\* The frame of a dispatchEvent(eventName) that found a Set, before forEach
\* has invoked anything.
NewFrame(eventName) ==
    [name |-> eventName, snap |-> Snapshot(listeners, eventName), pos |-> 0,
     invoked |-> <<>>, regAt |-> reg, emptiedAt |-> emptied, added |-> {},
     removed |-> {}, owes |-> owed[eventName], lsAt |-> listeners,
     orderAt |-> order[eventName], touched |-> FALSE,
     depth |-> Len(stack) + 1, nested |-> FALSE]

\* The running dispatches once the listener on top has called dispatchEvent.
Calling == [i \in 1..Len(stack) |->
              IF i = Len(stack) THEN [stack[i] EXCEPT !.nested = TRUE] ELSE stack[i]]

\* The record of a dispatchEvent(eventName) that ended without invoking
\* anything.
Empty(eventName, how) ==
    [NoDispatch EXCEPT !.name = eventName, !.regAt = reg, !.emptiedAt = emptied,
                       !.lsAt = listeners, !.orderAt = order[eventName],
                       !.depth = Len(stack) + 1, !.outcome = how]

\* dispatchEvent only reads #listeners, with Map.prototype.get; a lookup
\* that creates the missing Set would leave an entry behind.
DispatchListenersCreate(ls, eventName) ==
    IF HasEntry(ls, eventName) THEN ls
    ELSE [n \in DOMAIN ls \cup {eventName} |-> IF n = eventName THEN <<>> ELSE ls[n]]

\* #listeners after the lookup of dispatchEvent(eventName).
DispatchListeners(ls, eventName) == ls

\* forEach takes its next element: the frame with that callback running.
Invoke(fr, cb) == [fr EXCEPT !.pos = @ + 1, !.invoked = Append(@, cb)]

DispatchEvent(eventName) ==
    /\ CanCall
    /\ Len(stack) < MaxDepth
    /\ prev' = listeners
    /\ calls' = calls + 1
    /\ listeners' = DispatchListeners(listeners, eventName)
    /\ UNCHANGED <<reg, emptied, order, script>>
    /\ IF ~DispatchGuard(listeners, eventName)
       THEN \* no Set under this name: nothing is invoked
            /\ done' = Empty(eventName, "returned")
            /\ last' = Step("dispatch", eventName, "", "")
            /\ stack' = Calling
            /\ UNCHANGED <<error, owed>>
       ELSE IF ~HasEntry(listeners, eventName)
       THEN \* spreading undefined raises a TypeError in dispatchEvent
            /\ done' = Empty(eventName, "threw")
            /\ last' = Step("dispatch", eventName, "", "")
            /\ error' = (stack # <<>>)
            /\ stack' = Calling
            /\ UNCHANGED owed
       ELSE LET fr == NewFrame(eventName)
                pend == Pending(fr, listeners)
            IN  /\ owed' = [owed EXCEPT ![eventName] = {}]
                /\ IF pend = <<>>
                   THEN /\ done' = Finished(fr, "returned")
                        /\ last' = Step("dispatch", eventName, "", "")
                        /\ stack' = Calling
                        /\ UNCHANGED error
                   ELSE /\ stack' = Append(Calling, Invoke(fr, Head(pend)))
                        /\ last' = Step("dispatch", eventName, "", Head(pend))
                        /\ UNCHANGED <<done, error>>

\* The callback running on top of the stack returns: forEach invokes the
\* next element, or dispatchEvent returns to its caller.
CallbackReturn ==
    /\ stack # <<>>
    /\ error = FALSE
    /\ LET fr == stack[Len(stack)]
           pend == Pending(fr, listeners)
           running == fr.invoked[Len(fr.invoked)]
       IN  IF pend = <<>>
           THEN /\ stack' = SubSeq(stack, 1, Len(stack) - 1)
                /\ done' = Finished(fr, "returned")
                /\ last' = Step("return", fr.name, running, "")
           ELSE /\ stack' = [stack EXCEPT ![Len(stack)] = Invoke(fr, Head(pend))]
                /\ last' = Step("return", fr.name, running, Head(pend))
                /\ UNCHANGED done
    /\ prev' = listeners
    /\ UNCHANGED <<listeners, error, reg, emptied, order, owed, calls, script>>

\* A dispatchEvent that isolates its listeners: the exception of a callback
\* is caught around the call and forEach goes on with the next element.
CallbackThrowIsolated ==
    /\ stack # <<>>
    /\ LET fr == stack[Len(stack)]
           pend == Pending(fr, listeners)
           running == fr.invoked[Len(fr.invoked)]
       IN  IF pend = <<>>
           THEN /\ stack' = SubSeq(stack, 1, Len(stack) - 1)
                /\ done' = Finished(fr, "returned")
                /\ last' = Step("throw", fr.name, running, "")
           ELSE /\ stack' = [stack EXCEPT ![Len(stack)] = Invoke(fr, Head(pend))]
                /\ last' = Step("throw", fr.name, running, Head(pend))
                /\ UNCHANGED done
    /\ error' = FALSE
    /\ prev' = listeners
    /\ UNCHANGED <<listeners, reg, emptied, order, owed, calls, script>>

\* The callback running on top of the stack ends with an exception (its own,
\* or one of a dispatch it called and did not catch): forEach stops and
\* dispatchEvent, which has no handler, passes it to its caller.
CallbackThrow ==
    /\ stack # <<>>
    /\ LET fr == stack[Len(stack)]
       IN  /\ last' = Step("throw", fr.name, fr.invoked[Len(fr.invoked)], "")
           /\ done' = Finished(fr, "threw")
    /\ stack' = SubSeq(stack, 1, Len(stack) - 1)
    /\ error' = (Len(stack) > 1)
    /\ prev' = listeners
    /\ UNCHANGED <<listeners, reg, emptied, order, owed, calls, script>>

\* The listener that called the failed dispatch catches the exception and
\* goes on.
CallbackCatch ==
    /\ stack # <<>>
    /\ error = TRUE
    /\ error' = FALSE
    /\ last' = Step("catch", stack[Len(stack)].name, "", "")
    /\ prev' = listeners
    /\ UNCHANGED <<listeners, stack, reg, emptied, order, owed, done, calls, script>>

Add == \E eventName \in Names, callback \in Handles : AddEventListener(eventName, callback)

Remove == \E eventName \in Names, callback \in Handles : RemoveEventListener(eventName, callback)

Dispatch == \E eventName \in Names : DispatchEvent(eventName)

Next ==
    \/ Add
    \/ Remove
    \/ Dispatch
    \/ CallbackReturn
    \/ CallbackThrow
    \/ CallbackCatch

Spec == Init /\ [][Next]_vars

----------------------------------------------------------------------------
\* The sample usage at the end of script.js, for the event names hello and
\* world and the callbacks logHello, logWorld and anon (the arrow function
\* registered in place).
Usage(hello, world, logHello, logWorld, anon) ==
    << [op |-> "add", name |-> hello, cb |-> logHello],
       [op |-> "add", name |-> world, cb |-> logWorld],
       [op |-> "add", name |-> world, cb |-> anon],
       [op |-> "add", name |-> hello, cb |-> logHello],
       [op |-> "dispatch", name |-> hello, cb |-> ""],
       [op |-> "dispatch", name |-> world, cb |-> ""],
       [op |-> "remove", name |-> hello, cb |-> logHello],
       [op |-> "dispatch", name |-> hello, cb |-> ""],
       [op |-> "dispatch", name |-> world, cb |-> ""] >>

\* The sample usage under every choice of two distinct names and three
\* distinct callbacks; the choice made in script.js is one of them.
Usages ==
    {Usage(hello, world, h1, h2, h3) :
        hello \in Names, world \in Names, h1 \in Handles, h2 \in Handles, h3 \in Handles}

UsageInit ==
    /\ listeners = << >>
    /\ stack = << >>
    /\ error = FALSE
    /\ reg = NoReg
    /\ emptied = {}
    /\ order = [n \in Names |-> <<>>]
    /\ owed = [n \in Names |-> {}]
    /\ done = NoDispatch
    /\ last = NoCall
    /\ prev = << >>
    /\ calls = 0
    /\ script \in {u \in Usages :
                     /\ u[1].name # u[2].name
                     /\ Cardinality({u[1].cb, u[2].cb, u[3].cb}) = 3}

\* The statement the program has reached, once the call before it returned.
UsageAt(op) ==
    /\ stack = <<>>
    /\ calls < Len(script)
    /\ script[calls + 1].op = op

UsageAdd ==
    UsageAt("add") /\ AddEventListener(script[calls + 1].name, script[calls + 1].cb)

UsageRemove ==
    UsageAt("remove") /\ RemoveEventListener(script[calls + 1].name, script[calls + 1].cb)

UsageDispatch ==
    UsageAt("dispatch") /\ DispatchEvent(script[calls + 1].name)

\* The listeners of the sample usage only log: they return without calling
\* the target and without throwing.
UsageNext ==
    \/ UsageAdd
    \/ UsageRemove
    \/ UsageDispatch
    \/ CallbackReturn

UsageSpec == UsageInit /\ [][UsageNext]_vars

----------------------------------------------------------------------------
\* Callers whose listeners neither throw nor dispatch: dispatchEvent is
\* called by the program only, addEventListener and removeEventListener by
\* the program or by the running listener.
ProgramDispatch == stack = <<>> /\ Dispatch

QuietNext ==
    \/ Add
    \/ Remove
    \/ ProgramDispatch
    \/ CallbackReturn

\* A listener that does not throw returns, and forEach then goes on at once:
\* the return of the running callback is not postponed for ever.
QuietSpec == Init /\ [][QuietNext]_vars /\ WF_vars(CallbackReturn)

----------------------------------------------------------------------------
\* The dispatches under way and, once one has ended, the one that ended last.
Dispatches ==
    {stack[i] : i \in 1..Len(stack)} \cup (IF done.outcome = "none" THEN {} ELSE {done})

Times(s, h) == Cardinality({i \in 1..Len(s) : s[i] = h})

\* C1 (snapshot dispatch): a dispatchEvent(E) invokes only handles that were
\* registered for E when it began, none of them twice, and when it returns
\* it has invoked exactly those handles, whatever the listeners added or
\* removed while it ran.
SnapshotDispatch ==
    /\ \A fr \in Dispatches :
          NoDup(fr.invoked) /\ Range(fr.invoked) \subseteq AtStart(fr)
    /\ done.outcome = "returned" =>
          /\ Range(done.invoked) = AtStart(done)
          /\ Len(done.invoked) = Cardinality(AtStart(done))

\* A dispatch of two or more handles has returned, during which a listener
\* registered a new handle and a listener removed one not yet invoked.
SnapshotDispatchWitness ==
    /\ done.outcome = "returned"
    /\ Len(done.invoked) >= 2
    /\ done.added # {}
    /\ done.removed # {}

\* C2 (re-entrant add): a handle added to E during a dispatch of E, and not
\* registered for E when that dispatch began, is not invoked by that
\* dispatch; if it is not removed, the next dispatch of E to start has
\* invoked it when it returns.
ReentrantAdd ==
    /\ \A fr \in Dispatches : fr.added \cap Range(fr.invoked) = {}
    /\ done.outcome = "returned" => done.owes \subseteq Range(done.invoked)

\* A dispatch has returned that began with a handle added during an earlier
\* dispatch of its name, and during which another handle was added.
ReentrantAddWitness ==
    /\ done.outcome = "returned"
    /\ done.owes # {}
    /\ done.added # {}
    /\ stack = <<>>

\* C3 (re-entrant remove): a handle registered when a dispatch of E began
\* and removed by a listener before its turn has been invoked when that
\* dispatch returns, and a dispatch of E that begins while it is still
\* removed does not invoke it.
ReentrantRemove ==
    /\ done.outcome = "returned" => done.removed \subseteq Range(done.invoked)
    /\ \A i \in 1..Len(stack) :
          stack[i].name = done.name =>
             (done.removed \ AtStart(stack[i])) \cap Range(stack[i].invoked) = {}

\* A dispatch returned after a listener had removed a handle before its
\* turn, and a new dispatch of the same name, begun with that handle still
\* removed, is running.
ReentrantRemoveWitness ==
    /\ done.outcome = "returned"
    /\ Len(stack) = 1
    /\ stack[1].name = done.name
    /\ stack[1].added = {} /\ stack[1].removed = {}
    /\ done.removed \ AtStart(stack[1]) # {}

\* C4 (deduplication): a Set never holds a handle twice; an addEventListener
\* of a handle already added and not removed since leaves #listeners as it
\* was; a dispatch that begins after such repeated adds invokes the handle
\* once.
Deduplication ==
    /\ \A n \in DOMAIN listeners : NoDup(listeners[n])
    /\ (last.op = "add" /\ reg[last.name][last.cb] = 2) => listeners = prev
    /\ \A fr \in Dispatches : \A h \in Handles :
          fr.regAt[fr.name][h] = 2 => Times(fr.invoked, h) <= 1
    /\ done.outcome = "returned" =>
          \A h \in Handles : done.regAt[done.name][h] = 2 => Times(done.invoked, h) = 1

\* A dispatch has returned that began when some handle had been added to
\* its name twice in a row.
DeduplicationWitness ==
    /\ done.outcome = "returned"
    /\ \E h \in Handles : done.regAt[done.name][h] = 2

\* C5 (no dangling empty entries): every key of #listeners has a non-empty
\* Set.
NoEmptyEntries == \A n \in DOMAIN listeners : Len(listeners[n]) > 0

\* A listener running in a dispatch has just removed the only handle of a
\* name.
NoEmptyEntriesWitness ==
    /\ last.op = "remove"
    /\ stack # <<>>
    /\ HasEntry(prev, last.name)
    /\ Range(prev[last.name]) = {last.cb}

\* C6 (independence of events): a dispatch of B invokes only handles
\* registered under B when it began; a handle then registered only under
\* another name A is not invoked.
Independence ==
    \A fr \in Dispatches :
       /\ \A h \in Range(fr.invoked) : fr.regAt[fr.name][h] > 0
       /\ \A a \in Names \ {fr.name} :
             (Registered(fr.regAt, a) \ AtStart(fr)) \cap Range(fr.invoked) = {}

\* A dispatch that invoked a handle has returned, begun while another name
\* had a handle of its own.
IndependenceWitness ==
    /\ done.outcome = "returned"
    /\ done.invoked # <<>>
    /\ \E a \in Names \ {done.name} : Registered(done.regAt, a) \ AtStart(done) # {}

\* C7 (removing nothing): a removeEventListener(E, H) made when E has no
\* entry, or an entry without H, leaves #listeners as it was and raises no
\* error.
RemoveAbsentNoOp ==
    (/\ last.op = "remove"
     /\ (~HasEntry(prev, last.name) \/ last.cb \notin Range(prev[last.name])))
    => (listeners = prev /\ error = FALSE)

\* A removeEventListener has just been made for a handle that the existing
\* entry of the name did not hold.
RemoveAbsentNoOpWitness ==
    /\ last.op = "remove"
    /\ HasEntry(prev, last.name)
    /\ last.cb \notin Range(prev[last.name])

\* C8 (removal idempotence): a removeEventListener(E, H) that immediately
\* repeats the same call leaves #listeners as the first call left it and
\* raises no error; after a removal H is not stored under E, and a dispatch
\* of E that began while H was removed does not invoke H.
RemovalIdempotence ==
    /\ (last.op = "remove" /\ last.rep) => (listeners = prev /\ error = FALSE)
    /\ last.op = "remove" =>
          ~(HasEntry(listeners, last.name) /\ last.cb \in Range(listeners[last.name]))
    /\ \A fr \in Dispatches : \A h \in Handles :
          fr.regAt[fr.name][h] = 0 => Times(fr.invoked, h) = 0

\* The same removeEventListener call has just been made twice in a row on a
\* name that still has listeners.
RemovalIdempotenceWitness ==
    /\ last.op = "remove"
    /\ last.rep
    /\ HasEntry(listeners, last.name)

\* C9 (empty-entry cleanup): removing the last handle of E deletes the key
\* E; a dispatch of E made then invokes nothing; an addEventListener(E, H')
\* made then stores exactly H', and a dispatch begun with only H' registered
\* has invoked H' once and nothing else when it returns.
EmptyEntryCleanup ==
    /\ (/\ last.op = "remove"
        /\ HasEntry(prev, last.name)
        /\ Range(prev[last.name]) = {last.cb}) => ~HasEntry(listeners, last.name)
    /\ \A n \in emptied : Registered(reg, n) = {} => ~HasEntry(listeners, n)
    /\ (/\ last.op = "dispatch"
        /\ last.name \in emptied
        /\ Registered(reg, last.name) = {})
       => (/\ last.invoked = ""
           /\ done.name = last.name
           /\ done.invoked = <<>>
           /\ done.outcome = "returned")
    /\ (/\ last.op = "add"
        /\ last.name \in emptied
        /\ Registered(reg, last.name) = {last.cb})
       => (HasEntry(listeners, last.name) /\ listeners[last.name] = <<last.cb>>)
    /\ (done.outcome = "returned" /\ done.name \in done.emptiedAt) =>
          \A h \in Handles : AtStart(done) = {h} => done.invoked = <<h>>

\* A dispatch of one handle has returned, begun after the last listener of
\* its name had been removed and a handle added again.
EmptyEntryCleanupWitness ==
    /\ done.outcome = "returned"
    /\ done.name \in done.emptiedAt
    /\ Len(done.invoked) = 1

\* C10 (dispatch without entry): a dispatchEvent of a name that is no key of
\* #listeners invokes nothing, raises no error, returns and leaves
\* #listeners as it was.
DispatchNoEntry ==
    (last.op = "dispatch" /\ ~HasEntry(prev, last.name))
    => (/\ last.invoked = ""
        /\ listeners = prev
        /\ error = FALSE
        /\ done.name = last.name
        /\ done.invoked = <<>>
        /\ done.outcome = "returned")

\* A listener running in a dispatch has just dispatched a name whose
\* listeners had all been removed.
DispatchNoEntryWitness ==
    /\ last.op = "dispatch"
    /\ ~HasEntry(prev, last.name)
    /\ last.name \in emptied
    /\ stack # <<>>

\* The dispatch made by the k-th call of the sample usage has returned with
\* exactly the invocations inv, in some order.
UsageResult(k, eventName, inv) ==
    (calls = k /\ stack = <<>>) =>
        /\ done.outcome = "returned"
        /\ done.name = eventName
        /\ Range(done.invoked) = inv
        /\ Len(done.invoked) = Cardinality(inv)

\* C11 (sample usage): after the four registrations, dispatching hello
\* invokes logHello once; dispatching world invokes logWorld and anon once
\* each; after logHello is removed, dispatching hello invokes nothing and
\* dispatching world again invokes logWorld and anon once each.
UsageScenario ==
    script # <<>> =>
        LET hello == script[1].name
            world == script[2].name
            logHello == script[1].cb
            logWorld == script[2].cb
            anon == script[3].cb
        IN  /\ UsageResult(5, hello, {logHello})
            /\ UsageResult(6, world, {logWorld, anon})
            /\ UsageResult(7, world, {logWorld, anon})
            /\ UsageResult(8, hello, {})
            /\ UsageResult(9, world, {logWorld, anon})
            /\ \A i \in 1..Len(stack) :
                  /\ NoDup(stack[i].invoked)
                  /\ Range(stack[i].invoked) \subseteq
                        (IF stack[i].name = hello THEN {logHello} ELSE {logWorld, anon})
            /\ calls = 8 => stack = <<>>

\* The sample usage as written in script.js has made its last call and that
\* dispatch has returned.
UsageScenarioWitness ==
    /\ script = Usage("hello", "world", "logHello", "logWorld", "anon")
    /\ calls = 9
    /\ stack = <<>>
    /\ last.op = "return"

\* The handles registered at the start of a dispatch that it has yet to
\* invoke.
Left(fr) == Cardinality(AtStart(fr) \ Range(fr.invoked))

\* C12 (dispatch runs to completion): with listeners that neither throw nor
\* dispatch, a dispatch that has ended has returned with every handle of its
\* start invoked; while it runs, no call of a listener enlarges what it has
\* yet to invoke and every return of a callback shrinks it; and every
\* dispatch under way ends.
RunsToCompletion ==
    /\ [](done.outcome # "none" =>
            /\ done.outcome = "returned"
            /\ Left(done) = 0
            /\ Len(done.invoked) = Cardinality(AtStart(done)))
    /\ [][(stack # <<>> /\ stack' # <<>>) =>
            /\ Left(stack'[1]) <= Left(stack[1])
            /\ last'.op = "return" => Left(stack'[1]) < Left(stack[1])]_vars
    /\ ((stack # <<>>) ~> (stack = <<>>))

\* A dispatch has returned during which the listeners added two new
\* handles to its name.
RunsToCompletionWitness ==
    /\ done.outcome = "returned"
    /\ Len(done.invoked) >= 1
    /\ Cardinality(done.added) >= 2

\* C13 (frame of add and remove): an addEventListener(E, H) or
\* removeEventListener(E, H) leaves every other name's entry and Set as they
\* were, and changes the Set of E at most in H.
FrameOfAddRemove ==
    last.op \in {"add", "remove"} =>
        /\ \A f \in Names \ {last.name} :
              /\ HasEntry(listeners, f) = HasEntry(prev, f)
              /\ HasEntry(prev, f) => listeners[f] = prev[f]
        /\ Stored(listeners, last.name) \ {last.cb} = Stored(prev, last.name) \ {last.cb}

\* A new handle has just been added to a name that had listeners, while
\* another name had listeners too.
FrameOfAddRemoveWitness ==
    /\ last.op = "add"
    /\ Stored(prev, last.name) # {}
    /\ last.cb \notin Stored(prev, last.name)
    /\ \E f \in Names \ {last.name} : HasEntry(prev, f)

\* A dispatchEvent call has ended at the step taken last.
JustEnded == last.op \in {"dispatch", "return", "throw"} /\ last.invoked = ""

\* C14 (dispatch only reads): no step of dispatchEvent changes #listeners;
\* as long as no listener has called addEventListener or
\* removeEventListener since a dispatch began, #listeners is what it was
\* then, also when the dispatch ends; and a dispatchEvent of the same name
\* called right after such a dispatch returned takes the same handles.
DispatchReadsOnly ==
    /\ [](last.op \in {"dispatch", "return", "throw", "catch"} => listeners = prev)
    /\ [](\A i \in 1..Len(stack) : ~stack[i].touched => listeners = stack[i].lsAt)
    /\ []((JustEnded /\ ~done.touched) => listeners = done.lsAt)
    /\ [][(/\ JustEnded
           /\ done.outcome = "returned"
           /\ ~done.touched
           /\ last'.op = "dispatch"
           /\ last'.name = done.name)
          => IF last'.invoked = ""
             THEN done.invoked = <<>> /\ done'.invoked = <<>>
             ELSE stack'[Len(stack')].snap = done.invoked]_vars

\* A dispatch of two or more handles returned without any call of its
\* listeners to the target, and a second dispatch of the same name has
\* just begun on the same #listeners.
DispatchReadsOnlyWitness ==
    /\ last.op = "dispatch"
    /\ last.invoked # ""
    /\ done.outcome = "returned"
    /\ ~done.touched
    /\ Len(done.invoked) >= 2
    /\ done.name = last.name
    /\ stack[Len(stack)].lsAt = done.lsAt
    /\ stack[Len(stack)].snap = done.invoked

\* C15 (add/remove round trip): a removeEventListener(E, H) made right
\* after the addEventListener(E, H) that registered H anew leaves #listeners
\* as it was before that add, the key E absent if it was absent.
AddRemoveRoundTrip == [][last'.undo => listeners' = prev]_vars

\* The only handle of a name has just been removed right after it was
\* added, and the name has no entry.
AddRemoveRoundTripWitness ==
    /\ last.op = "remove"
    /\ last.undo
    /\ ~HasEntry(listeners, last.name)
    /\ listeners # << >>

\* C16 (nested dispatch): a dispatchEvent called by a running listener
\* invokes the handles registered when it was called, each once, the
\* additions and removals made during the outer dispatch included; the
\* outer dispatch, after the inner one, still invokes the handles of its
\* own start only, and all of them by the time it returns.
NestedDispatch ==
    \A fr \in Dispatches :
        (fr.depth >= 2 \/ fr.nested) =>
            /\ NoDup(fr.invoked)
            /\ Range(fr.invoked) \subseteq AtStart(fr)
            /\ fr.added \cap Range(fr.invoked) = {}
            /\ (fr = done /\ done.outcome = "returned") =>
                  /\ Range(fr.invoked) = AtStart(fr)
                  /\ fr.owes \subseteq Range(fr.invoked)

\* An inner dispatch has returned that began with a handle added during the
\* outer dispatch of the same name, which is still running.
NestedDispatchWitness ==
    /\ done.outcome = "returned"
    /\ done.depth = 2
    /\ done.owes # {}
    /\ Len(stack) = 1
    /\ stack[1].name = done.name
    /\ stack[1].nested
    /\ done.owes \subseteq stack[1].added

\* C17 (failing listener): when a callback throws, its dispatchEvent ends
\* with the exception passed to its caller, the handles of the copy after
\* that callback are not invoked, and #listeners is unchanged.
FailingListener ==
    last.op = "throw" =>
        /\ done.outcome = "threw"
        /\ last.invoked = ""
        /\ done.invoked = SubSeq(done.snap, 1, Len(done.invoked))
        /\ done.invoked[Len(done.invoked)] = last.cb
        /\ Len(stack) = done.depth - 1
        /\ error = (stack # <<>>)
        /\ listeners = prev

\* A callback has just thrown with handles of the copy left to invoke.
FailingListenerWitness ==
    /\ last.op = "throw"
    /\ Len(done.invoked) < Len(done.snap)
    /\ listeners # << >>

\* C18 (invocation order): the Set of a name holds its handles in the order
\* of their first registration since their last removal, and a dispatch
\* invokes them in that order as it stood when the dispatch began; a
\* repeated add leaves the order as it was, an add of an absent handle puts
\* it last.
InvocationOrder ==
    /\ \A n \in Names : order[n] = IF HasEntry(listeners, n) THEN listeners[n] ELSE <<>>
    /\ \A fr \in Dispatches : fr.invoked = SubSeq(fr.orderAt, 1, Len(fr.invoked))
    /\ done.outcome = "returned" => done.invoked = done.orderAt
    /\ (last.op = "add" /\ last.cb \in Stored(prev, last.name)) =>
          listeners[last.name] = prev[last.name]
    /\ (last.op = "add" /\ last.cb \notin Stored(prev, last.name)) =>
          listeners[last.name] =
             Append(IF HasEntry(prev, last.name) THEN prev[last.name] ELSE <<>>, last.cb)

\* A dispatch of two or more handles has returned whose first handle had
\* been added twice.
InvocationOrderWitness ==
    /\ done.outcome = "returned"
    /\ Len(done.invoked) >= 2
    /\ done.regAt[done.name][done.invoked[1]] = 2

====
